---- MODULE Spec2Model ----
(***************************************************************************)
(* Model of monsgeek_hid.py: the report-diffing translator                 *)
(* (process_hid_report), the event sink (emit_events), the full release    *)
(* (release_all_keys) and the connection lifecycle loop (run) of the       *)
(* MonsGeek userspace HID driver.  Control positions inside run follow the *)
(* points at which an exception or an operator interrupt can take control  *)
(* away from the straight-line code.                                       *)
(***************************************************************************)
EXTENDS Integers, Sequences, FiniteSets, TLC

VARIABLES
    pc,             \* control position inside run()
    ctx,            \* "run": try body, "handler": except OSError body, "finally"
    exc,            \* exception that took control out of the loop ("none" if none)
    errno,          \* errno class of that exception when it is an OSError
    uinput_fd,      \* self.uinput_fd
    hidraw_fd,      \* self.hidraw_fd
    prev_modifiers, \* self.prev_modifiers
    prev_keys,      \* self.prev_keys
    cur,            \* data: bytes returned by the latest os.read of the drain loop
    last,           \* latest report for which process_hid_report returned normally
    out,            \* bytes written to uinput by the emit_events call in progress
    net,            \* per scancode: presses minus releases accepted by uinput
    kc,             \* per keycode: presses minus releases accepted by uinput
    uinput_dev,     \* synthetic device: "none", "created", "destroyed"
    hidraw_open,    \* the OS-level hidraw handle is open
    dev,            \* physical keyboard: "present" or "absent"
    fdLive,         \* the open hidraw handle still refers to a plugged device
    avail,          \* reports queued in the hidraw handle, readable without blocking
    exit_connected  \* hidraw_fd was not None when control left the loop

vars == <<pc, ctx, exc, errno, uinput_fd, hidraw_fd, prev_modifiers, prev_keys, cur,
          last, out, net, kc, uinput_dev, hidraw_open, dev, fdLive, avail,
          exit_connected>>

----------------------------------------------------------------------------
(* Program constants *)

EV_SYN == 0
EV_KEY == 1
SYN_REPORT == 0

\* the two "8"s of the report length checks (process_hid_report and run)
MinReportLenShort == 8 - 1
MinReportLen == 8

HID_TO_LINUX ==
    (4 :> 30) @@ (5 :> 48) @@ (6 :> 46) @@ (7 :> 32) @@ (8 :> 18) @@ (9 :> 33)
    @@ (10 :> 34) @@ (11 :> 35) @@ (12 :> 23) @@ (13 :> 36) @@ (14 :> 37) @@ (15 :> 38)
    @@ (16 :> 50) @@ (17 :> 49) @@ (18 :> 24) @@ (19 :> 25) @@ (20 :> 16) @@ (21 :> 19)
    @@ (22 :> 31) @@ (23 :> 20) @@ (24 :> 22) @@ (25 :> 47) @@ (26 :> 17) @@ (27 :> 45)
    @@ (28 :> 21) @@ (29 :> 44) @@ (30 :> 2) @@ (31 :> 3) @@ (32 :> 4) @@ (33 :> 5)
    @@ (34 :> 6) @@ (35 :> 7) @@ (36 :> 8) @@ (37 :> 9) @@ (38 :> 10) @@ (39 :> 11)
    @@ (40 :> 28) @@ (41 :> 1) @@ (42 :> 14) @@ (43 :> 15) @@ (44 :> 57) @@ (45 :> 12)
    @@ (46 :> 13) @@ (47 :> 26) @@ (48 :> 27) @@ (49 :> 43) @@ (50 :> 43) @@ (51 :> 39)
    @@ (52 :> 40) @@ (53 :> 41) @@ (54 :> 51) @@ (55 :> 52) @@ (56 :> 53) @@ (57 :> 58)
    @@ (58 :> 59) @@ (59 :> 60) @@ (60 :> 61) @@ (61 :> 62) @@ (62 :> 63) @@ (63 :> 64)
    @@ (64 :> 65) @@ (65 :> 66) @@ (66 :> 67) @@ (67 :> 68) @@ (68 :> 87) @@ (69 :> 88)
    @@ (70 :> 99) @@ (71 :> 70) @@ (72 :> 119) @@ (73 :> 110) @@ (74 :> 102) @@ (75 :> 104)
    @@ (76 :> 111) @@ (77 :> 107) @@ (78 :> 109) @@ (79 :> 106) @@ (80 :> 105) @@ (81 :> 108)
    @@ (82 :> 103) @@ (83 :> 69) @@ (84 :> 98) @@ (85 :> 55) @@ (86 :> 74) @@ (87 :> 78)
    @@ (88 :> 96) @@ (89 :> 79) @@ (90 :> 80) @@ (91 :> 81) @@ (92 :> 75) @@ (93 :> 76)
    @@ (94 :> 77) @@ (95 :> 71) @@ (96 :> 72) @@ (97 :> 73) @@ (98 :> 82) @@ (99 :> 83)
    @@ (100 :> 86) @@ (101 :> 127) @@ (102 :> 116) @@ (103 :> 117)

MODIFIER_MAP ==
    << <<0, 29>>, <<1, 42>>, <<2, 56>>, <<3, 125>>,
       <<4, 97>>, <<5, 54>>, <<6, 100>>, <<7, 126>> >>

None == "None"
NoData == << >>

----------------------------------------------------------------------------
(* Bounds of the model: the reports the keyboard may send *)

MaxHeld == 2          \* most scancodes held in one generated report
MaxBurst == 2         \* most reports queued in the handle at once

\* 0x03 is absent from HID_TO_LINUX; 0x04 is A; 0x31 and 0x32 share keycode 43
Scancodes == {3, 4, 49, 50}
\* modifier bytes: none, Left Ctrl, Left Shift, both
ModMasks == {0, 1, 2, 3}

KeySets == {K \in SUBSET Scancodes : Cardinality(K) <= MaxHeld}

RECURSIVE SetToSeq(_)
SetToSeq(S) ==
    IF S = {} THEN << >>
    ELSE LET m == CHOOSE x \in S : \A y \in S : x <= y
         IN <<m>> \o SetToSeq(S \ {m})

Pad(s, n) == s \o [i \in 1..(n - Len(s)) |-> 0]

\* an 8-byte boot-protocol report: modifier byte, reserved byte, six slots
Report(m, K) == <<m, 0>> \o Pad(SetToSeq(K), 6)

WellFormedReports ==
    {Report(m, K) : m \in ModMasks, K \in KeySets}
    \cup { <<0, 0, 4, 4, 0, 0, 0, 0>>,          \* one scancode in two slots
           <<0, 0, 4, 0, 0, 0, 0, 0, 49>>,      \* 9 bytes: byte 8 is no slot
           <<0, 0, 4, 1, 2, 3, 104, 105, 49>> } \* six slots in use, and a byte 8

ShortReports == { << >>, <<1, 0, 4, 0, 0, 0, 0>> }

Reports == WellFormedReports \cup ShortReports

\* outcome of an os.write / failing os.read, by errno class:
\* EAGAIN is BlockingIOError, ENODEV is errno 19, OTHER any other OSError
WriteResults == {"ok", "EAGAIN", "ENODEV", "OTHER"}

----------------------------------------------------------------------------
(* Pure parts of the translator and the sink *)

\* (x >> bit) & 1
Bit(x, bit) == (x \div (2 ^ bit)) % 2

make_key_event(keycode, value) ==
    [type |-> EV_KEY, code |-> keycode, value |-> value, hid |-> 0]

SYN_EVENT == [type |-> EV_SYN, code |-> SYN_REPORT, value |-> 0, hid |-> 0]

\* the event for a scancode, tagged with the scancode that caused it
ScancodeEvent(hid_code, value) ==
    [make_key_event(HID_TO_LINUX[hid_code], value) EXCEPT !.hid = hid_code]

\* modifiers = data[0]
ReportModifiers(data) == data[1]

ReportKeysAllBytes(data) == {data[i] : i \in DOMAIN data \ {1, 2}} \ {0}
\* keys = set(data[2:8]) - {0}
ReportKeys(data) == {data[i] : i \in (3..8) \cap DOMAIN data} \ {0}

\* the orders in which a for loop may visit the elements of a set
RECURSIVE Orders(_)
Orders(S) ==
    IF S = {} THEN { << >> }
    ELSE UNION { { <<x>> \o o : o \in Orders(S \ {x}) } : x \in S }

ModifierEventsEveryReport(pm, modifiers) ==
    LET held == SelectSeq(MODIFIER_MAP,
                          LAMBDA p : Bit(pm, p[1]) + Bit(modifiers, p[1]) > 0)
    IN [i \in 1..Len(held) |->
            make_key_event(held[i][2], Bit(modifiers, held[i][1]))]
\* for bit, keycode in MODIFIER_MAP: if was_pressed != is_pressed: append
ModifierEvents(pm, modifiers) ==
    LET changed == SelectSeq(MODIFIER_MAP,
                             LAMBDA p : Bit(pm, p[1]) # Bit(modifiers, p[1]))
    IN [i \in 1..Len(changed) |->
            make_key_event(changed[i][2], Bit(modifiers, changed[i][1]))]

\* for hid_code in <order>: if hid_code in HID_TO_LINUX: append event
KeyEventsUnfiltered(order, value) ==
    [i \in 1..Len(order) |->
        IF order[i] \in DOMAIN HID_TO_LINUX
        THEN ScancodeEvent(order[i], value)
        ELSE [make_key_event(0, value) EXCEPT !.hid = order[i]]]
KeyEvents(order, value) ==
    LET mapped == SelectSeq(order, LAMBDA h : h \in DOMAIN HID_TO_LINUX)
    IN [i \in 1..Len(mapped) |-> ScancodeEvent(mapped[i], value)]

ReleasedKeys(pk, keys) == pk \ keys

PressedKeysAll(pk, keys) == keys
PressedKeys(pk, keys) == keys \ pk

\* events of process_hid_report: modifier changes, then releases, then presses
AssemblePressFirst(mods, rel, prs) == mods \o prs \o rel
Assemble(mods, rel, prs) == mods \o rel \o prs

ReportEvents(pm, pk, data) ==
    { Assemble(ModifierEvents(pm, ReportModifiers(data)),
               KeyEvents(r, 0), KeyEvents(p, 1)) :
        r \in Orders(ReleasedKeys(pk, ReportKeys(data))),
        p \in Orders(PressedKeys(pk, ReportKeys(data))) }

\* events of release_all_keys: held scancodes, then asserted modifiers
ModifierReleases(pm) ==
    LET held == SelectSeq(MODIFIER_MAP, LAMBDA p : Bit(pm, p[1]) = 1)
    IN [i \in 1..Len(held) |-> make_key_event(held[i][2], 0)]

ReleaseEventsKeysOnly(pm, pk) == { KeyEvents(r, 0) : r \in Orders(pk) }
ReleaseEvents(pm, pk) ==
    { KeyEvents(r, 0) \o ModifierReleases(pm) : r \in Orders(pk) }

\* emit_events: "if not events: return"
EmitWritesAlways(events) == TRUE
EmitWrites(events) == events # << >>

\* data = b''.join(events) + SYN_EVENT
EmitDataSynPerEvent(events) ==
    [i \in 1..(2 * Len(events)) |->
        IF i % 2 = 1 THEN events[(i + 1) \div 2] ELSE SYN_EVENT]
EmitData(events) == events \o <<SYN_EVENT>>

----------------------------------------------------------------------------
(* What the synthetic device has accepted *)

Keycodes ==
    {HID_TO_LINUX[s] : s \in Scancodes \cap DOMAIN HID_TO_LINUX}
    \cup {MODIFIER_MAP[i][2] : i \in 1..Len(MODIFIER_MAP)}

CountHid(data, s, v) ==
    Cardinality({i \in DOMAIN data :
        data[i].type = EV_KEY /\ data[i].hid = s /\ data[i].value = v})

CountCode(data, k, v) ==
    Cardinality({i \in DOMAIN data :
        data[i].type = EV_KEY /\ data[i].code = k /\ data[i].value = v})

ApplyNet(n, data) ==
    [s \in Scancodes |-> n[s] + CountHid(data, s, 1) - CountHid(data, s, 0)]

ApplyKc(n, data) ==
    [k \in Keycodes |-> n[k] + CountCode(data, k, 1) - CountCode(data, k, 0)]

\* os.write(self.uinput_fd, data) succeeded
Written(data) ==
    /\ out' = data
    /\ net' = ApplyNet(net, data)
    /\ kc' = ApplyKc(kc, data)

NotWritten ==
    /\ out' = << >>
    /\ UNCHANGED <<net, kc>>

----------------------------------------------------------------------------
(* State after MonsGeekHID() *)

Init ==
    /\ pc = "init"
    /\ ctx = "run"
    /\ exc = "none"
    /\ errno = "none"
    /\ uinput_fd = None
    /\ hidraw_fd = None
    /\ prev_modifiers = 0
    /\ prev_keys = {}
    /\ cur = NoData
    /\ last = NoData
    /\ out = << >>
    /\ net = [s \in Scancodes |-> 0]
    /\ kc = [k \in Keycodes |-> 0]
    /\ uinput_dev = "none"
    /\ hidraw_open = FALSE
    /\ dev \in {"present", "absent"}
    /\ fdLive = FALSE
    /\ avail = 0
    /\ exit_connected = FALSE

keyState == <<prev_modifiers, prev_keys>>
sink == <<out, net, kc>>
env == <<dev, fdLive, avail>>

\* control leaves the try body with exception e: the finally clause starts
Leave(e) ==
    /\ exc' = e
    /\ ctx' = "finally"
    /\ pc' = "disc"
    /\ exit_connected' = (hidraw_fd # None)
    /\ cur' = NoData
    /\ last' = NoData

\* control leaves the try body with an exception of errno class no
Raise(e, no) ==
    /\ Leave(e)
    /\ errno' = no

\* "except OSError as e" with e.errno == 19: disconnect_hidraw is called
EnterHandler ==
    /\ ctx' = "handler"
    /\ pc' = "disc"
    /\ cur' = NoData
    /\ last' = NoData
    /\ UNCHANGED <<exc, errno, exit_connected>>

----------------------------------------------------------------------------
(* The keyboard and the kernel *)

Arrive ==
    /\ hidraw_fd # None /\ fdLive /\ ctx # "finally" /\ pc # "exited"
    /\ avail < MaxBurst
    /\ avail' = avail + 1
    /\ UNCHANGED <<pc, ctx, exc, errno, uinput_fd, hidraw_fd, keyState, cur, last, sink,
                   uinput_dev, hidraw_open, dev, fdLive, exit_connected>>

Unplug ==
    /\ dev = "present" /\ ctx # "finally" /\ pc \notin {"init", "exited"}
    /\ dev' = "absent"
    /\ fdLive' = FALSE
    /\ avail' = 0
    /\ UNCHANGED <<pc, ctx, exc, errno, uinput_fd, hidraw_fd, keyState, cur, last, sink,
                   uinput_dev, hidraw_open, exit_connected>>

Plug ==
    /\ dev = "absent" /\ ctx # "finally" /\ pc \notin {"init", "exited"}
    /\ dev' = "present"
    /\ UNCHANGED <<pc, ctx, exc, errno, uinput_fd, hidraw_fd, keyState, cur, last, sink,
                   uinput_dev, hidraw_open, fdLive, avail, exit_connected>>

----------------------------------------------------------------------------
(* run: setup and the lifecycle loop *)

\* setup_uinput, called before the try statement
setup_uinput ==
    /\ pc = "init"
    /\ \E ok \in BOOLEAN :
        IF ok
        THEN /\ uinput_fd' = "fd"
             /\ uinput_dev' = "created"
             /\ pc' = "loop"
             /\ UNCHANGED <<exc, errno>>
        ELSE /\ pc' = "exited"
             /\ exc' = "SetupFailure"
             /\ errno' = "OTHER"
             /\ UNCHANGED <<uinput_fd, uinput_dev>>
    /\ UNCHANGED <<ctx, hidraw_fd, keyState, cur, last, sink, hidraw_open, env,
                   exit_connected>>

\* connect_hidraw returns True: find_hidraw gave a path ("if hr") and os.open
\* did not raise
ConnectIgnoresOpenError(found, opened) == found
ConnectSucceeds(found, opened) == found /\ opened

\* "if self.hidraw_fd is None: if not self.connect_hidraw(): sleep; continue"
connect_hidraw ==
    /\ pc = "loop" /\ hidraw_fd = None
    /\ \E found \in (IF dev = "present" THEN BOOLEAN ELSE {FALSE}), opened \in BOOLEAN :
        IF ConnectSucceeds(found, opened)
        THEN /\ hidraw_fd' = "fd"
             /\ hidraw_open' = opened
             /\ fdLive' = opened
             /\ prev_modifiers' = 0
             /\ prev_keys' = {}
             /\ last' = NoData
             /\ pc' = "select"
        ELSE UNCHANGED <<hidraw_fd, hidraw_open, fdLive, keyState, last, pc>>
    /\ UNCHANGED <<ctx, exc, errno, uinput_fd, cur, sink, uinput_dev, dev, avail,
                   exit_connected>>

\* the loop top when a handle is held
LoopConnected ==
    /\ pc = "loop" /\ hidraw_fd # None
    /\ pc' = "select"
    /\ cur' = NoData                    \* data is not read again before os.read
    /\ UNCHANGED <<ctx, exc, errno, uinput_fd, hidraw_fd, keyState, last, sink,
                   uinput_dev, hidraw_open, env, exit_connected>>

\* select.select([self.hidraw_fd], [], [], 0.001); a dead handle polls readable
Select ==
    /\ pc = "select"
    /\ pc' = IF avail > 0 \/ ~fdLive THEN "read" ELSE "loop"
    /\ UNCHANGED <<ctx, exc, errno, uinput_fd, hidraw_fd, keyState, cur, last, sink,
                   uinput_dev, hidraw_open, env, exit_connected>>

\* data = os.read(self.hidraw_fd, 64) and the dispatch on its outcome
Read ==
    /\ pc = "read"
    /\ \/ /\ fdLive /\ avail > 0
          /\ \E data \in Reports :
                /\ cur' = data
                /\ pc' = IF Len(data) >= MinReportLen THEN "proc" ELSE "read"
          /\ avail' = avail - 1
          /\ UNCHANGED <<ctx, exc, errno, last, exit_connected>>
       \/ /\ fdLive /\ avail = 0                    \* BlockingIOError: break
          /\ pc' = "loop"
          /\ cur' = NoData
          /\ UNCHANGED <<ctx, exc, errno, last, avail, exit_connected>>
       \/ /\ ~fdLive                                \* OSError, errno 19
          /\ EnterHandler
          /\ UNCHANGED avail
       \/ /\ Raise("OSError_read", "OTHER")         \* any other OSError: raise
          /\ UNCHANGED avail
    /\ UNCHANGED <<uinput_fd, hidraw_fd, keyState, sink, uinput_dev,
                   hidraw_open, dev, fdLive>>

\* process_hid_report up to and including self.emit_events(events)
WouldBlockIgnored(data) == [pc |-> "proc_mod", cur |-> data]
\* BlockingIOError out of emit_events: "except BlockingIOError: break" ends the
\* drain loop with lines 242-243 skipped; the local data still holds the report
WouldBlock(data) == [pc |-> "loop", cur |-> data]

process_hid_report ==
    /\ pc = "proc"
    /\ IF Len(cur) < MinReportLen
       THEN /\ pc' = "read"
            /\ UNCHANGED <<ctx, exc, errno, cur, last, sink, exit_connected>>
       ELSE \E events \in ReportEvents(prev_modifiers, prev_keys, cur) :
            IF ~EmitWrites(events)
            THEN /\ NotWritten
                 /\ pc' = "proc_mod"
                 /\ UNCHANGED <<ctx, exc, errno, cur, last, exit_connected>>
            ELSE \E res \in WriteResults :
                 CASE res = "ok" ->
                        /\ Written(EmitData(events))
                        /\ pc' = "proc_mod"
                        /\ UNCHANGED <<ctx, exc, errno, cur, last, exit_connected>>
                   [] res = "EAGAIN" ->
                        /\ NotWritten
                        /\ pc' = WouldBlock(cur).pc
                        /\ cur' = WouldBlock(cur).cur
                        /\ UNCHANGED <<ctx, exc, errno, last, exit_connected>>
                   [] res = "ENODEV" ->
                        /\ NotWritten
                        /\ EnterHandler
                   [] OTHER ->
                        /\ NotWritten
                        /\ Raise("OSError_write", "OTHER")
    /\ UNCHANGED <<uinput_fd, hidraw_fd, keyState, uinput_dev, hidraw_open, env>>

\* self.prev_modifiers = modifiers
ProcSetModifiers ==
    /\ pc = "proc_mod"
    /\ prev_modifiers' = ReportModifiers(cur)
    /\ pc' = "proc_keys"
    /\ UNCHANGED <<ctx, exc, errno, uinput_fd, hidraw_fd, prev_keys, cur, last, sink,
                   uinput_dev, hidraw_open, env, exit_connected>>

\* self.prev_keys = keys, and the return into the drain loop
ProcSetKeys ==
    /\ pc = "proc_keys"
    /\ prev_keys' = ReportKeys(cur)
    /\ last' = cur
    /\ out' = << >>
    /\ pc' = "read"
    /\ UNCHANGED <<ctx, exc, errno, uinput_fd, hidraw_fd, prev_modifiers, cur, net, kc,
                   uinput_dev, hidraw_open, env, exit_connected>>

----------------------------------------------------------------------------
(* disconnect_hidraw and release_all_keys *)

\* where disconnect_hidraw returns to
Return ==
    IF ctx = "handler"
    THEN /\ pc' = "loop"
         /\ ctx' = "run"
    ELSE /\ pc' = "destroy"
         /\ UNCHANGED ctx

\* "if self.hidraw_fd is not None: os.close(self.hidraw_fd)"
disconnect_hidraw_unguarded ==
    /\ pc = "disc"
    /\ hidraw_open' = FALSE
    /\ pc' = "disc_none"
    /\ UNCHANGED <<ctx, exc, errno, uinput_fd, hidraw_fd, keyState, cur, last, sink,
                   uinput_dev, env, exit_connected>>
disconnect_hidraw ==
    /\ pc = "disc"
    /\ IF hidraw_fd # None
       THEN /\ hidraw_open' = FALSE
            /\ pc' = "disc_none"
            /\ UNCHANGED ctx
       ELSE /\ Return
            /\ UNCHANGED hidraw_open
    /\ UNCHANGED <<exc, errno, uinput_fd, hidraw_fd, keyState, cur, last, sink, uinput_dev,
                   env, exit_connected>>

\* self.hidraw_fd = None
DiscSetNone ==
    /\ pc = "disc_none"
    /\ hidraw_fd' = None
    /\ pc' = "rel"
    /\ UNCHANGED <<ctx, exc, errno, uinput_fd, keyState, cur, last, sink, uinput_dev,
                   hidraw_open, env, exit_connected>>

\* release_all_keys up to and including self.emit_events(events)
release_all_keys ==
    /\ pc = "rel"
    /\ \E events \in ReleaseEvents(prev_modifiers, prev_keys) :
        IF ~EmitWrites(events)
        THEN /\ NotWritten
             /\ pc' = "rel_mod"
             /\ UNCHANGED <<ctx, exc, errno, cur, last, exit_connected>>
        ELSE \E res \in WriteResults :
             IF res = "ok"
             THEN /\ Written(EmitData(events))
                  /\ pc' = "rel_mod"
                  /\ UNCHANGED <<ctx, exc, errno, cur, last, exit_connected>>
             ELSE /\ NotWritten
                  /\ IF ctx = "handler"
                     THEN Raise("OSError_write", res) \* raised inside the except body
                     ELSE /\ exc' = "OSError_write"   \* raised inside the finally body
                          /\ errno' = res
                          /\ pc' = "exited"
                          /\ UNCHANGED <<ctx, cur, last, exit_connected>>
    /\ UNCHANGED <<uinput_fd, hidraw_fd, keyState, uinput_dev, hidraw_open, env>>

\* self.prev_modifiers = 0
RelSetModifiers ==
    /\ pc = "rel_mod"
    /\ prev_modifiers' = 0
    /\ pc' = "rel_keys"
    /\ UNCHANGED <<ctx, exc, errno, uinput_fd, hidraw_fd, prev_keys, cur, last, sink,
                   uinput_dev, hidraw_open, env, exit_connected>>

\* self.prev_keys = set(), and the return to the caller of disconnect_hidraw
RelSetKeys ==
    /\ pc = "rel_keys"
    /\ prev_keys' = {}
    /\ out' = << >>
    /\ Return
    /\ UNCHANGED <<exc, errno, uinput_fd, hidraw_fd, prev_modifiers, cur, last, net, kc,
                   uinput_dev, hidraw_open, env, exit_connected>>

----------------------------------------------------------------------------
(* Termination *)

LoopPcs == {"loop", "select", "read", "proc", "proc_mod", "proc_keys"}
DisconnectPcs == {"disc", "disc_none", "rel", "rel_mod", "rel_keys"}

\* KeyboardInterrupt raised between two steps of the try statement's body
Interrupt ==
    /\ ctx \in {"run", "handler"}
    /\ pc \in LoopPcs \cup DisconnectPcs
    /\ Raise("KeyboardInterrupt", "none")
    /\ UNCHANGED <<uinput_fd, hidraw_fd, keyState, sink, uinput_dev,
                   hidraw_open, env>>

\* "if self.uinput_fd is not None: ioctl(UI_DEV_DESTROY); os.close(...)"
Destroy ==
    /\ pc = "destroy"
    /\ uinput_dev' = IF uinput_fd # None THEN "destroyed" ELSE uinput_dev
    /\ pc' = "exited"
    /\ UNCHANGED <<ctx, exc, errno, uinput_fd, hidraw_fd, keyState, cur, last, sink,
                   hidraw_open, env, exit_connected>>

Next ==
    \/ Arrive \/ Unplug \/ Plug
    \/ setup_uinput \/ connect_hidraw \/ LoopConnected \/ Select \/ Read
    \/ process_hid_report \/ ProcSetModifiers \/ ProcSetKeys
    \/ disconnect_hidraw \/ DiscSetNone
    \/ release_all_keys \/ RelSetModifiers \/ RelSetKeys
    \/ Interrupt \/ Destroy

Spec == Init /\ [][Next]_vars

----------------------------------------------------------------------------
(* Properties *)

Mapped == Scancodes \cap DOMAIN HID_TO_LINUX
Unmapped == Scancodes \ DOMAIN HID_TO_LINUX

\* the run loop holds a handle and is between two reports
BetweenReports ==
    ctx = "run" /\ hidraw_fd # None /\ pc \in {"loop", "select", "read"}

IsScancodeRelease(e) == e.type = EV_KEY /\ e.hid # 0 /\ e.value = 0
IsScancodePress(e) == e.type = EV_KEY /\ e.hid # 0 /\ e.value = 1

KeyEventCount(data) == Cardinality({i \in DOMAIN data : data[i].type = EV_KEY})

AssertedBits(m) == {i \in 1..Len(MODIFIER_MAP) : Bit(m, MODIFIER_MAP[i][1]) = 1}

\* C1 as stated: between two reports of a connection, for EVERY scancode s,
\* presses minus releases emitted for s is 1 if s is in slots 2..7 of the most
\* recently processed report and 0 otherwise.
C1_AllScancodes ==
    BetweenReports =>
        \A s \in Scancodes : net[s] = IF s \in ReportKeys(last) THEN 1 ELSE 0

\* C1 amended: between two reports of a connection, for every scancode s that
\* HID_TO_LINUX maps, presses minus releases emitted for s is 1 if s is in
\* slots 2..7 of the most recently processed report and 0 otherwise.
C1_MappedScancodes ==
    BetweenReports =>
        \A s \in Mapped : net[s] = IF s \in ReportKeys(last) THEN 1 ELSE 0

\* a report holding A and non-US # has been processed and A's press is accepted
C1_Witness ==
    BetweenReports /\ ReportKeys(last) = {4, 50} /\ net[4] = 1 /\ net[49] = 0

\* C2: whenever hidraw_fd is None, prev_keys is empty and prev_modifiers is 0
\* (the release is done and KeyState cleared before the handle is marked absent).
C2_ReleasedBeforeGone ==
    hidraw_fd = None => prev_keys = {} /\ prev_modifiers = 0

C4_ReleaseBeforePress ==
    \A i, j \in DOMAIN out :
        (IsScancodeRelease(out[i]) /\ IsScancodePress(out[j])) => i < j

\* a report released one scancode and pressed another in the same step
C4_Witness ==
    /\ pc = "proc_mod"
    /\ \E i, j \in DOMAIN out : IsScancodeRelease(out[i]) /\ IsScancodePress(out[j])

\* C5: when termination was triggered while a handle was held, at exit every
\* press accepted by the synthetic device has its release (scancodes and
\* modifiers).
C5_NoStuckKeyAtExit ==
    (pc = "exited" /\ exit_connected) =>
        /\ \A s \in Scancodes : net[s] = 0
        /\ \A k \in Keycodes : kc[k] = 0

\* C6: on every exit of run after the synthetic device was created, the hidraw
\* handle is closed and the synthetic device is destroyed.
C6_CleanupOnEveryExit ==
    (pc = "exited" /\ uinput_dev # "none") =>
        (uinput_dev = "destroyed" /\ ~hidraw_open)

\* C7: a failed write of emit_events never takes control out of the run loop.
C7_WriteFailureNeverTerminates ==
    exc # "OSError_write"

\* C8: a read shorter than 8 bytes leaves prev_modifiers and prev_keys
\* unchanged, writes nothing, keeps the handle and the drain loop's position,
\* and a short report never reaches process_hid_report's translation.
C8_ShortReportIgnored ==
    [][ /\ (pc = "read" /\ avail' = avail - 1 /\ Len(cur') < 8) =>
            /\ pc' = "read"
            /\ keyState' = keyState
            /\ sink' = sink
            /\ hidraw_fd' = hidraw_fd
        /\ (Len(cur) < 8 /\ pc \in {"proc", "proc_mod", "proc_keys"}) =>
            /\ keyState' = keyState
            /\ sink' = sink ]_vars

\* a 7-byte read was taken while a key was held
C8_Witness ==
    pc = "read" /\ Len(cur) = 7 /\ prev_keys # {}

\* C9: no write consists of the synchronization marker alone; a report whose
\* diff against KeyState is empty, and a full release with nothing pressed,
\* write nothing.
C9_NoBareSyn ==
    /\ out # <<SYN_EVENT>>
    /\ (pc = "proc_mod" /\ ReportModifiers(cur) = prev_modifiers
            /\ ReportKeys(cur) = prev_keys) => out = << >>
    /\ (pc = "rel_mod" /\ prev_modifiers = 0 /\ prev_keys = {}) => out = << >>

\* a report equal to the held state (keys held) went through emit_events
C9_Witness ==
    /\ pc = "proc_mod" /\ prev_keys # {}
    /\ ReportModifiers(cur) = prev_modifiers /\ ReportKeys(cur) = prev_keys

\* C10: a scancode absent from HID_TO_LINUX is tracked in prev_keys like any
\* other, no event is ever written for it, and the key events written for a
\* report are exactly those of the mapped scancodes that changed.
C10_UnmappedTrackedSilently ==
    /\ BetweenReports => prev_keys = ReportKeys(last)
    /\ \A s \in Unmapped : net[s] = 0
    /\ \A i \in DOMAIN out : out[i].hid \notin Unmapped
    /\ (pc = "proc_mod" /\ out # << >>) =>
          {out[i] : i \in {j \in DOMAIN out : out[j].hid # 0}} =
              {ScancodeEvent(s, 0) : s \in (prev_keys \ ReportKeys(cur)) \cap Mapped}
              \cup {ScancodeEvent(s, 1) : s \in (ReportKeys(cur) \ prev_keys) \cap Mapped}

\* the unmapped 0x03 is held together with A, whose press was accepted
C10_Witness ==
    pc = "read" /\ prev_keys = {3, 4} /\ net[4] = 1 /\ net[3] = 0

\* C11: an OSError that ends the lifecycle loop (the finally clause runs for
\* it) is never of the would-block (EAGAIN) or device-removed (ENODEV) kind:
\* those are resolved inside the loop, and only an I/O error of another kind
\* propagates out of run.
C11_OnlyOtherErrorsPropagate ==
    (exc \in {"OSError_read", "OSError_write"} /\ ctx = "finally" /\ pc # "exited")
        => errno = "OTHER"

\* C12: every step that takes hidraw_fd from None to a handle (connect_hidraw
\* returning True) leaves prev_modifiers = 0 and prev_keys = {} and holds a
\* handle that os.open really opened; a connect attempt that fails leaves the
\* manager at the loop top with hidraw_fd None and KeyState unchanged.
C12_ConnectResetsKeyState ==
    [][ /\ (hidraw_fd = None /\ hidraw_fd' # None) =>
            /\ prev_modifiers' = 0 /\ prev_keys' = {}
            /\ hidraw_open' /\ pc' = "select"
        /\ (pc = "loop" /\ hidraw_fd = None /\ pc' = "loop") =>
            /\ hidraw_fd' = None /\ ~hidraw_open'
            /\ keyState' = keyState ]_vars

\* just connected: a handle is held, nothing read yet, KeyState empty
C12_Witness ==
    /\ pc = "select" /\ hidraw_fd # None /\ last = NoData /\ avail = 0
    /\ prev_modifiers = 0 /\ prev_keys = {}

\* C13: prev_keys never holds more than the six scancode slots of one report
\* and never holds the empty-slot value 0, whatever the length of the reports
\* read.
C13_AtMostSixNonzero ==
    Cardinality(prev_keys) <= 6 /\ 0 \notin prev_keys

\* a report longer than 8 bytes with six distinct slots has been applied
C13_Witness ==
    /\ Cardinality(prev_keys) = 6
    /\ last # NoData /\ Len(last) > MinReportLen
    /\ prev_keys = ReportKeys(last)

\* positions of the modifier events of a batch
ModifierPositions(data) ==
    {i \in DOMAIN data : data[i].type = EV_KEY /\ data[i].hid = 0}

\* the MODIFIER_MAP index whose keycode is k
ModifierIndex(k) == CHOOSE i \in 1..Len(MODIFIER_MAP) : MODIFIER_MAP[i][2] = k

\* C14: the batch written for one report holds exactly one event, carrying the
\* new value, for each modifier bit that differs from prev_modifiers and none
\* for an unchanged bit; the modifier events stand in bit order 0..7 and before
\* every scancode release and press event.
C14_ModifierEventsFirstInBitOrder ==
    (pc = "proc_mod") =>
        LET modifiers == ReportModifiers(cur)
            mp == ModifierPositions(out)
        IN /\ \A b \in 1..Len(MODIFIER_MAP) :
                LET bit == MODIFIER_MAP[b][1]
                    at == {i \in mp : out[i].code = MODIFIER_MAP[b][2]}
                IN IF Bit(prev_modifiers, bit) # Bit(modifiers, bit)
                   THEN /\ Cardinality(at) = 1
                        /\ \A i \in at : out[i].value = Bit(modifiers, bit)
                   ELSE at = {}
           /\ \A i, j \in mp :
                i < j => ModifierIndex(out[i].code) < ModifierIndex(out[j].code)
           /\ \A i \in mp, j \in DOMAIN out :
                (IsScancodeRelease(out[j]) \/ IsScancodePress(out[j])) => i < j

\* from empty state, Left Ctrl + Left Shift + A: press 29, press 42, press A
C14_Witness ==
    /\ pc = "proc_mod" /\ prev_modifiers = 0 /\ prev_keys = {}
    /\ cur = Report(3, {4})
    /\ out = <<make_key_event(29, 1), make_key_event(42, 1),
               ScancodeEvent(4, 1), SYN_EVENT>>

\* the key events of a written batch: everything before its last element
BatchEvents(data) == SubSeq(data, 1, Len(data) - 1)

\* C15: a write to the synthetic device happens only in the step that leaves
\* the emit call of process_hid_report or of release_all_keys, so once per
\* processed report and per full release; what is written is all the key events
\* of that transition followed by one synchronization marker, which is its
\* last element and its only one.
C15_OneWriteClosedBySyn ==
    [][ /\ (out' # out /\ out' # << >>) =>
            pc \in {"proc", "rel"} /\ pc' \notin {"proc", "rel"}
        /\ (out' # << >>) =>
            /\ Len(out') >= 2
            /\ out'[Len(out')] = SYN_EVENT
            /\ \A i \in 1..(Len(out') - 1) : out'[i].type = EV_KEY
        /\ (pc = "proc" /\ out' # << >>) =>
            BatchEvents(out') \in ReportEvents(prev_modifiers, prev_keys, cur)
        /\ (pc = "rel" /\ out' # << >>) =>
            BatchEvents(out') \in ReleaseEvents(prev_modifiers, prev_keys) ]_vars

\* a full release of one held key and one asserted modifier went out as one
\* write of two key events and the marker
C15_Witness ==
    /\ pc = "rel_mod" /\ Len(out) = 3
    /\ out[1].type = EV_KEY /\ out[2].type = EV_KEY /\ out[3] = SYN_EVENT

\* the manager is inside the drain loop of one wake
Draining == ctx = "run" /\ pc \in {"read", "proc", "proc_mod", "proc_keys"}

\* C16: the drain loop goes back to the readability wait only from a read that
\* would block (nothing is queued), and every full report taken from the
\* device is applied to KeyState before the next read.
C16_DrainUntilReadBlocks ==
    [][ /\ (Draining /\ ctx' = "run" /\ pc' = "loop") =>
            (pc = "read" /\ avail = 0)
        /\ (pc = "proc" /\ pc' # "proc" /\ Len(cur) >= MinReportLen /\ ctx' = "run") =>
            pc' = "proc_mod" ]_vars

\* C17: disconnect_hidraw called while hidraw_fd is None returns at once: it
\* closes nothing, writes nothing, and leaves the handle, KeyState and the
\* synthetic device as they were; so after a device-removal disconnect the
\* shutdown cleanup writes nothing at all.
C17_DisconnectIdempotent ==
    [][ /\ (pc = "disc" /\ hidraw_fd = None /\ pc' # "disc") =>
            /\ pc' \in {"loop", "destroy"}
            /\ UNCHANGED <<hidraw_fd, hidraw_open, keyState, sink, uinput_dev, uinput_fd>>
        /\ (ctx = "finally" /\ ~exit_connected) => UNCHANGED <<keyState, sink>> ]_vars

\* the shutdown cleanup has run disconnect_hidraw on a manager that a device
\* removal had already disconnected
C17_Witness ==
    /\ pc = "destroy" /\ exc = "KeyboardInterrupt"
    /\ hidraw_fd = None /\ ~exit_connected /\ dev = "absent"
    /\ prev_modifiers = 0 /\ prev_keys = {}

----------------------------------------------------------------------------
(* Progress: the interpreter keeps executing the program, and a locator that
   keeps yielding an openable path makes a connect attempt succeed *)

\* the steps of the program itself (not the device, not the operator)
ProgramStep ==
    \/ setup_uinput \/ connect_hidraw \/ LoopConnected \/ Select \/ Read
    \/ process_hid_report \/ ProcSetModifiers \/ ProcSetKeys
    \/ disconnect_hidraw \/ DiscSetNone
    \/ release_all_keys \/ RelSetModifiers \/ RelSetKeys
    \/ Destroy

\* connect_hidraw returned True
ConnectSucceeded == connect_hidraw /\ hidraw_fd' # None

SpecLive == Spec /\ WF_vars(ProgramStep) /\ WF_vars(ConnectSucceeded)

Connected == ctx = "run" /\ hidraw_fd # None

\* C18: while the run loop holds no handle it only polls (it is at the loop
\* top, and reads and writes nothing), and if the device stays present from
\* some point on, every device-removed disconnect is followed by a state in
\* which the manager is Connected again, unless the operator interrupts.
C18_ReconnectsAfterRemoval ==
    /\ []((ctx = "run" /\ hidraw_fd = None /\ pc # "exited") => pc \in {"init", "loop"})
    /\ (<>[](dev = "present")) =>
            [](ctx = "handler" => <>(Connected \/ exc = "KeyboardInterrupt"))

\* KeyState describes exactly what the synthetic device has accepted: a mapped
\* scancode is in prev_keys iff its presses exceed its releases by one (and
\* otherwise they are equal), and likewise each modifier bit of prev_modifiers
KeyStateMatchesDevice ==
    /\ \A s \in Mapped : net[s] = IF s \in prev_keys THEN 1 ELSE 0
    /\ \A i \in 1..Len(MODIFIER_MAP) :
        kc[MODIFIER_MAP[i][2]] = Bit(prev_modifiers, MODIFIER_MAP[i][1])

\* C19: a step of process_hid_report whose write fails leaves prev_modifiers,
\* prev_keys and the accepted events as they were, and whenever the run loop is
\* between two reports KeyState equals the key state described by the events
\* the synthetic device has accepted (mapped scancodes and modifiers).
C19_KeyStateFollowsAcceptedEvents ==
    [][ /\ (pc = "proc" /\ pc' \notin {"proc", "proc_mod"}) =>
            (keyState' = keyState /\ net' = net /\ kc' = kc)
        /\ BetweenReports' => KeyStateMatchesDevice' ]_vars

\* the write for a report that presses A would block: the loop is back at its
\* top with the report taken, nothing accepted and KeyState still empty
C19_Witness ==
    /\ BetweenReports /\ pc = "loop" /\ cur = Report(0, {4})
    /\ prev_keys = {} /\ prev_modifiers = 0
    /\ \A s \in Scancodes : net[s] = 0

\* some held scancode or asserted modifier bit maps to keycode k
KeycodeHeld(k) ==
    \/ \E s \in prev_keys \cap DOMAIN HID_TO_LINUX : HID_TO_LINUX[s] = k
    \/ \E i \in AssertedBits(prev_modifiers) : MODIFIER_MAP[i][2] = k

\* C20: between two reports, for every target keycode the presses written minus
\* the releases written is 0 or 1, and it is 1 exactly when a held scancode or
\* an asserted modifier bit maps to that keycode.
C20_KeycodeNetMatchesHeld ==
    BetweenReports =>
        \A k \in Keycodes :
            /\ kc[k] \in {0, 1}
            /\ (kc[k] = 1) <=> KeycodeHeld(k)

====
